---- MODULE Spec2Model ----
(***************************************************************************)
(* A model of the payoff simulator of src/debt_advisor.py (simulate and    *)
(* the financial-math helpers it calls) together with the part of the      *)
(* Streamlit session store it reads.                                       *)
(*                                                                         *)
(* Money.  The program computes in binary floating point.  The model       *)
(* computes in fixed point: one unit is 1/10000 of a dollar, so the        *)
(* program's 0.01 threshold is 100 units, and every product with a         *)
(* fraction (interest, percentages, frequency multipliers) is rounded      *)
(* down to a whole unit.  Rates are whole percents, extra_pct is a whole   *)
(* percentage (50 for 0.50).                                               *)
(*                                                                         *)
(* Indices.  Python lists are 0-based; the sequences here are 1-based.     *)
(* None (an unset payoff month, a missing term_months) is modelled as 0,   *)
(* which the program itself treats as falsy in both places.                *)
(***************************************************************************)
EXTENDS Integers, Sequences, FiniteSets, TLC

(***************************************************************************)
(* Units and arithmetic                                                    *)
(***************************************************************************)

\* 0.01 dollars (the "balance > 0.01" threshold), in model units.
Threshold == 100

\* One dollar in model units.
Dollar == 100 * Threshold

\* Fixed-point 1.0 for the growth factor (1+r)**months of amortize.
One == 10000

Max(a, b) == IF a >= b THEN a ELSE b

Min(a, b) == IF a <= b THEN a ELSE b

\* floor(a * b / c) for c > 0, b >= 0, without forming the product a * b.
MulDiv(a, b, c) == (a \div c) * b + ((a % c) * b) \div c

RECURSIVE SumOver(_, _)
\* sum of f[i] over the indices i of the set S
SumOver(f, S) ==
    IF S = {} THEN 0
    ELSE LET i == CHOOSE x \in S : TRUE IN f[i] + SumOver(f, S \ {i})

(***************************************************************************)
(* FINANCIAL MATH                                                          *)
(***************************************************************************)

\* FREQ_MULT: the monthly equivalent of an amount paid at frequency freq.
FreqMult(amount, freq) ==
    CASE freq = "Weekly"    -> MulDiv(amount, 4333, 1000)
      [] freq = "Bi-Weekly" -> MulDiv(amount, 2167, 1000)
      [] freq = "Monthly"   -> amount
      [] freq = "Annual"    -> amount \div 12

\* DEBT_CFG: default term in months and minimum percentage (in percent).
DEBT_CFG ==
    [t \in {"Credit Card", "Car Loan", "Mortgage", "Student Loan",
            "Personal Loan", "Medical Debt", "Other"} |->
        CASE t = "Credit Card"   -> [term |-> 0,   min_pct |-> 2]
          [] t = "Car Loan"      -> [term |-> 60,  min_pct |-> 0]
          [] t = "Mortgage"      -> [term |-> 360, min_pct |-> 0]
          [] t = "Student Loan"  -> [term |-> 120, min_pct |-> 0]
          [] t = "Personal Loan" -> [term |-> 48,  min_pct |-> 0]
          [] t = "Medical Debt"  -> [term |-> 0,   min_pct |-> 2]
          [] t = "Other"         -> [term |-> 60,  min_pct |-> 0]]

\* DEBT_CFG.get(type, DEBT_CFG["Other"])
CfgOf(type) == IF type \in DOMAIN DEBT_CFG THEN DEBT_CFG[type] ELSE DEBT_CFG["Other"]

\* DEBT_CFG.get(type, {}).get("min_pct", 0)
MinPctOf(type) == IF type \in DOMAIN DEBT_CFG THEN DEBT_CFG[type].min_pct ELSE 0

RECURSIVE Growth(_, _)
\* (1+r)**months in fixed point (One is 1.0), r = apr/100/12: month by
\* month up to a year, then year by year up to five, then five years at a
\* time
Growth(apr, months) ==
    IF months = 0 THEN One
    ELSE IF months > 60 THEN MulDiv(Growth(apr, months - 60), Growth(apr, 60), One)
    ELSE IF months > 12 THEN MulDiv(Growth(apr, months - 12), Growth(apr, 12), One)
    ELSE MulDiv(Growth(apr, months - 1), 1200 + apr, 1200)

\* amortize(balance, apr, months).  balance*r*g/(g-1) is computed as
\* balance*r + balance*r/(g-1), the same quantity.
amortize(balance, apr, months) ==
    IF months <= 0 \/ balance <= 0 THEN 0
    ELSE IF apr = 0 THEN balance \div months
    ELSE LET g == Growth(apr, months)
             i == MulDiv(balance, apr, 1200)
         IN  i + MulDiv(i, One, g - One)

\* max(25.0, balance * min_pct)
RevolvingMin(balance, min_pct) == Max(25 * Dollar, MulDiv(balance, min_pct, 100))

\* calc_min(debt)
calc_min(debt) ==
    LET cfg == CfgOf(debt.type) IN
    IF cfg.min_pct > 0 THEN RevolvingMin(debt.balance, cfg.min_pct)
    ELSE LET term == IF debt.term_months # 0 THEN debt.term_months ELSE cfg.term
         IN  amortize(debt.balance, debt.rate, term)

\* gross_monthly(incomes, month, future_inc)
gross_monthly(incs, m, future_inc) ==
    LET base  == SumOver([k \in DOMAIN incs |-> FreqMult(incs[k].amount, incs[k].freq)],
                         DOMAIN incs)
        bonus == SumOver([k \in DOMAIN future_inc |->
                             FreqMult(future_inc[k].amount, future_inc[k].freq)],
                         {k \in DOMAIN future_inc : m >= future_inc[k].start_month})
    IN  base + bonus

\* total_expenses_monthly(), of a session store's expenses
TotalExpenses(exps) == SumOver([k \in DOMAIN exps |-> exps[k].amount], DOMAIN exps)


(***************************************************************************)
(* simulate: the pieces of one call                                        *)
(***************************************************************************)

RECURSIVE SortedBy(_, _)
\* sorted(S, key=...): ascending by key, ties in ascending index order (stable)
SortedBy(key, S) ==
    IF S = {} THEN << >>
    ELSE LET i == CHOOSE x \in S :
                    \A y \in S : key[x] < key[y] \/ (key[x] = key[y] /\ x <= y)
         IN  <<i>> \o SortedBy(key, S \ {i})

\* StrategyKey with the rate ascending under Avalanche
StrategyKey_RateAscending(ds, strat, i) ==
    IF strat = "Avalanche" THEN ds[i].rate ELSE ds[i].balance

\* the sort key of debt i: -rate under Avalanche, else its (initial) balance
StrategyKey(ds, strat, i) ==
    IF strat = "Avalanche" THEN 0 - ds[i].rate ELSE ds[i].balance

\* order = sorted(range(len(debts)), key=...)
StrategyOrder(ds, strat) ==
    SortedBy([i \in DOMAIN ds |-> StrategyKey(ds, strat, i)], DOMAIN ds)

\* Active with the threshold at 0: if balances[i] > 0
Active_Positive(bal) == {i \in DOMAIN bal : bal[i] > 0}

\* active = [i for i in range(len(debts)) if balances[i] > 0.01]
Active(bal) == {i \in DOMAIN bal : bal[i] > Threshold}

\* LoopEnds for "for month in range(1, max_months)": one iteration short
LoopEnds_OneShort(m, maxm, bal) == m = maxm - 1 \/ Active(bal) = {}

\* "for month in range(1, max_months+1)" is exhausted after max_months
\* iterations, or "if not active: break" leaves it
LoopEnds(m, maxm, bal) == m = maxm \/ Active(bal) = {}

\* the list active, in the order the comprehension builds it
ActiveSeq(bal) == SortedBy([i \in DOMAIN bal |-> i], Active(bal))

\* UpdateMins left out: the minimums stay as computed before the loop
UpdateMins_Never(ds, bal, mn) == mn

\* "Update revolving mins"
UpdateMins(ds, bal, mn) ==
    [i \in DOMAIN mn |->
        IF i \in Active(bal) /\ MinPctOf(ds[i].type) > 0
        THEN RevolvingMin(bal[i], DEBT_CFG[ds[i].type].min_pct)
        ELSE mn[i]]

\* ExtraBudget without the percentage: extra = disposable
ExtraBudget_AllDisposable(disposable, total_min_active, pct) == disposable

\* extra = max(0.0, (disposable - total_min_active) * extra_pct)
ExtraBudget(disposable, total_min_active, pct) ==
    Max(0, MulDiv(disposable - total_min_active, pct, 100))

\* AvailableBudget without the minimums: available = min(disposable, extra)
AvailableBudget_ExtraOnly(disposable, total_min_active, pct) ==
    Min(disposable, ExtraBudget(disposable, total_min_active, pct))

\* available = min(disposable, total_min_active + extra)
AvailableBudget(disposable, total_min_active, pct) ==
    Min(disposable, total_min_active + ExtraBudget(disposable, total_min_active, pct))

\* InterestOf with the yearly rate: rates = d["rate"]/100
InterestOf_YearlyRate(ds, bal) ==
    [i \in DOMAIN bal |->
        IF i \in Active(bal) THEN MulDiv(bal[i], ds[i].rate, 100) ELSE 0]

\* interest = balances[i] * rates[i], for the active debts
InterestOf(ds, bal) ==
    [i \in DOMAIN bal |->
        IF i \in Active(bal) THEN MulDiv(bal[i], ds[i].rate, 1200) ELSE 0]

\* MinimumPay without the cap at the balance: pay = min(mins[i], available)
MinimumPay_NoBalanceCap(mn, bal, available) == Min(mn, available)

\* pay = min(mins[i], balances[i], available)
MinimumPay(mn, bal, available) == Min(Min(mn, bal), available)

RECURSIVE PayMinimums(_, _, _, _, _)
\* "Minimums": for i in active, in the order of idx
PayMinimums(idx, mn, bal, available, paid) ==
    IF idx = << >> THEN [balances |-> bal, available |-> available, paid |-> paid]
    ELSE LET i   == Head(idx)
             pay == MinimumPay(mn[i], bal[i], available)
         IN  PayMinimums(Tail(idx), mn, [bal EXCEPT ![i] = @ - pay],
                         available - pay, [paid EXCEPT ![i] = @ + pay])

\* the sequence of debts the "Minimums" loop walks: for i in active
MinimumsSequence(bal, ord) == ActiveSeq(bal)

\* ExtraSequence in input order: for i in active
ExtraSequence_InputOrder(bal, ord) == ActiveSeq(bal)

\* the sequence of debts the "Extra to target" loop walks: for i in order
ExtraSequence(bal, ord) == ord

\* ExtraPay without the cap at the balance: pay = available
ExtraPay_AllAvailable(bal, available) == available

\* pay = min(available, balances[i])
ExtraPay(bal, available) == Min(available, bal)

RECURSIVE PayExtra(_, _, _, _)
\* "Extra to target": for i in order
PayExtra(idx, bal, available, paid) ==
    IF idx = << >> THEN [balances |-> bal, available |-> available, paid |-> paid]
    ELSE LET i == Head(idx) IN
         IF bal[i] > Threshold /\ available > 0
         THEN LET pay == ExtraPay(bal[i], available)
              IN  PayExtra(Tail(idx), [bal EXCEPT ![i] = @ - pay],
                           available - pay, [paid EXCEPT ![i] = @ + pay])
         ELSE PayExtra(Tail(idx), bal, available, paid)

\* StoredAfter when the loop writes through to the records:
\* d["balance"] = balances[i]
StoredAfter_WriteThrough(ds, bal) == [i \in DOMAIN ds |-> [ds[i] EXCEPT !.balance = bal[i]]]

\* the debt records after an iteration: balances is a list of its own
\* (balances = [d["balance"] for d in debts]) and no statement of the loop
\* assigns to a record
StoredAfter(ds, bal) == ds

\* balances = [max(0.0, b) for b in balances]
Clamp(bal) == [i \in DOMAIN bal |-> Max(0, bal[i])]

\* if payoff_ev[i] is None and balances[i] < 0.01: payoff_ev[i] = month
MarkPayoffs(ev, bal, m) ==
    [i \in DOMAIN ev |-> IF ev[i] = 0 /\ bal[i] < Threshold THEN m ELSE ev[i]]

\* the snapshot appended to the timeline
Snapshot(m, bal, ti, th, exp) ==
    [month           |-> m,
     balances        |-> bal,
     total_remaining |-> SumOver(bal, DOMAIN bal),
     total_interest  |-> ti,
     takehome        |-> th,
     expenses        |-> exp]

\* what one iteration leaves: the locals it assigns, the snapshot it appends,
\* and the amounts it moved (interest added, payments applied)
IterationResult(m, exp, th, disposable, total_min, available, mins1, interest, bal1, afterMin, afterExtra, bal2, ti1) ==
    [balances   |-> bal2,
     available  |-> available,
     unclamped  |-> afterExtra.balances,
     mins       |-> mins1,
     total_int  |-> ti1,
     interest   |-> interest,
     with_int   |-> bal1,
     min_paid   |-> afterMin.paid,
     extra_paid |-> afterExtra.paid,
     left_over  |-> afterExtra.available,
     disposable |-> disposable,
     total_min  |-> total_min,
     snapshot   |-> Snapshot(m, bal2, ti1, th, exp)]

\* the two payment loops and the clamp, from the balances with interest added
ApplyPayments(m, exp, th, disposable, total_min, mins1, interest, bal1, idx, ord, available, ti1) ==
    LET zero == [i \in DOMAIN bal1 |-> 0]
        Extra(afterMin) ==
            LET Finish(afterExtra) ==
                    IterationResult(m, exp, th, disposable, total_min, available, mins1,
                                    interest, bal1, afterMin, afterExtra,
                                    Clamp(afterExtra.balances), ti1)
            IN  Finish(PayExtra(ord, afterMin.balances, Max(0, afterMin.available), zero))
    IN  Extra(PayMinimums(idx, mins1, bal1, available, zero))

\* One iteration of the loop for month m, from the balances, minimums and
\* interest total at its start; exp is total_expenses_monthly() as read in it.
LoopBody(ds, incs, fut, pct, ord, exp, m, bal, mn, ti) ==
    LET th == MulDiv(gross_monthly(incs, m, fut), 75, 100)
        WithMins(disposable, mins1, interest) ==
            LET WithTotal(total_min) ==
                    ApplyPayments(m, exp, th, disposable, total_min, mins1, interest,
                                  [i \in DOMAIN bal |-> bal[i] + interest[i]],
                                  MinimumsSequence(bal, ord), ExtraSequence(bal, ord),
                                  AvailableBudget(disposable, total_min, pct),
                                  ti + SumOver(interest, DOMAIN bal))
            IN  WithTotal(SumOver(mins1, Active(bal)))
    IN  WithMins(Max(0, th - exp), UpdateMins(ds, bal, mn), InterestOf(ds, bal))

\* days of timedelta(days=m*30.44), whole days
DaysAfter(m) == MulDiv(m, 3044, 100)

\* the events list before sorting: one event per debt with a payoff month
EventsOf(ds, ev) ==
    LET idx == SortedBy([i \in DOMAIN ds |-> i], {i \in DOMAIN ds : ev[i] # 0})
    IN  [k \in DOMAIN idx |->
            [name      |-> ds[idx[k]].name,
             month     |-> ev[idx[k]],
             date      |-> DaysAfter(ev[idx[k]]),
             freed_min |-> calc_min(ds[idx[k]])]]

\* sorted(events, key=lambda x: x["month"])
SortEvents(evs) ==
    LET ord == SortedBy([k \in DOMAIN evs |-> evs[k].month], DOMAIN evs)
    IN  [k \in DOMAIN ord |-> evs[ord[k]]]


RECURSIVE RunLoop(_, _, _, _, _, _, _, _, _, _, _)
\* The loop run to its end from month m: the number of snapshots, the final
\* total_interest and the final balances.
RunLoop(ds, incs, fut, pct, ord, exp, maxm, m, bal, mn, ti) ==
    IF LoopEnds(m, maxm, bal)
    THEN [months |-> m, total_interest |-> ti, balances |-> bal]
    ELSE LET Go(step) == RunLoop(ds, incs, fut, pct, ord, exp, maxm, m + 1,
                                 step.balances, step.mins, step.total_int)
         IN  Go(LoopBody(ds, incs, fut, pct, ord, exp, m + 1, bal, mn, ti))

\* simulate(ds, incs, fut, pct, strat, maxm) run to its end while the session
\* store's expenses total exp: len(timeline) and the last snapshot's figures
SimulateFinal(ds, incs, fut, pct, strat, maxm, exp) ==
    IF ds = << >> THEN [months |-> 0, total_interest |-> 0, balances |-> << >>]
    ELSE RunLoop(ds, incs, fut, pct, StrategyOrder(ds, strat), exp, maxm, 0,
                 [i \in DOMAIN ds |-> ds[i].balance],
                 [i \in DOMAIN ds |-> calc_min(ds[i])], 0)

(***************************************************************************)
(* freedom_score                                                           *)
(***************************************************************************)

\* floor(100 * mult * a / c) for a >= 0, c > 0: the ratio a / c times mult,
\* in hundredths
Hundredths(a, mult, c) ==
    LET whole == MulDiv(a, mult, c)
        rest  == ((a % c) * mult) % c
    IN  100 * whole + (rest * 100) \div c

\* round(x) of a float given in hundredths: to the nearest integer, a half
\* to the even neighbour
RoundHalfEven(x100) ==
    LET q == x100 \div 100
        r == x100 % 100
    IN  IF r > 50 \/ (r = 50 /\ q % 2 = 1) THEN q + 1 ELSE q

\* Clamp0to100 left out: return round(score)
Clamp0to100_None(x) == x

\* max(0, min(100, x))
Clamp0to100(x) == Max(0, Min(100, x))

\* round(score) of freedom_score, before the clamp.  The balance-weighted
\* average rate is formed from the balances in cents, the unit the debt
\* form enters them in.
RawScore(ds, gross_m, exp) ==
    LET th        == MulDiv(gross_m, 75, 100)
        total_min == SumOver([i \in DOMAIN ds |-> calc_min(ds[i])], DOMAIN ds)
        cents     == [i \in DOMAIN ds |-> ds[i].balance \div Threshold]
        total_bal == SumOver(cents, DOMAIN ds)
        weighted  == SumOver([i \in DOMAIN ds |-> ds[i].rate * cents[i]], DOMAIN ds)
        dti80     == IF th > 0 THEN Hundredths(total_min, 80, th) ELSE 8000
        exp40     == IF th > 0 THEN Hundredths(exp, 40, th) ELSE 4000
        rate15    == Hundredths(weighted, 3, 2 * Max(total_bal, 100))
    IN  RoundHalfEven(10000 - dti80 - exp40 - rate15)

\* freedom_score(debts, gross_m), exp being total_expenses_monthly()
freedom_score(ds, gross_m, exp) ==
    IF ds = << >> \/ gross_m = 0 THEN 100
    ELSE Clamp0to100(RawScore(ds, gross_m, exp))

(***************************************************************************)
(* GROQ AI HELPERS                                                         *)
(***************************************************************************)

\* the division by sum(d["balance"] for d in debts) raises ZeroDivisionError
ContextFails(ds) ==
    ds # << >> /\ SumOver([i \in DOMAIN ds |-> ds[i].balance], DOMAIN ds) = 0

\* build_financial_context(): the figures the document is written from
build_financial_context(ds, incs, exps, strat) ==
    LET gm   == gross_monthly(incs, 0, << >>)
        th   == MulDiv(gm, 75, 100)
        exp  == TotalExpenses(exps)
        tmin == SumOver([i \in DOMAIN ds |-> calc_min(ds[i])], DOMAIN ds)
    IN  [gross |-> gm, takehome |-> th, expenses |-> exp, mins |-> tmin,
         disposable |-> Max(0, th - exp - tmin),
         debts |-> [i \in DOMAIN ds |-> ds[i].name],
         strategy |-> strat, score |-> freedom_score(ds, gm, exp)]

\* a value returned: the text to display
Returned(kind, about) == [raised |-> FALSE, text |-> [kind |-> kind, about |-> about]]

\* Handled without the except clause: the exception leaves ask_groq
Handled_Reraise(exc) == [raised |-> TRUE, text |-> [kind |-> "exception", about |-> exc]]

\* except Exception as e: return f"Groq error: {str(e)}"
Handled(exc) == Returned("error", exc)

\* ask_groq(user_message, api_key).  service is what the Groq client does in
\* this call: "client_error" (the constructor raises), "service_error"
\* (chat.completions.create raises) or "ok" (it answers).
ask_groq(user_message, available, service, ds, incs, exps, strat, history) ==
    IF ~available THEN Returned("unavailable", "pip install groq")
    ELSE IF service = "client_error" THEN Handled("GroqError")
    ELSE IF ContextFails(ds) THEN Handled("ZeroDivisionError")
    ELSE IF service = "service_error" THEN Handled("APIError")
    ELSE Returned("answer", user_message)

\* chat_history[-10:]: how many stored messages go along with a question
ContextTurns == 10

\* st.session_state.chat_history[-10:]
LastTurns(history) ==
    SubSeq(history, Max(1, Len(history) - ContextTurns + 1), Len(history))

\* {"role": ..., "content": ...}
Message(role, content) == [role |-> role, content |-> content]

\* the list `messages` of ask_groq: the system context, the stored turns,
\* then user_message
Messages(context, history, user_message) ==
    <<Message("system", context)>> \o LastTurns(history)
        \o <<Message("user", user_message)>>

\* what chat.completions.create is called with in ask_groq; << >> when the
\* call is not reached (no library, no client, no context)
SentMessages(user_message, available, service, ds, incs, exps, strat, history) ==
    IF ~available \/ service = "client_error" \/ ContextFails(ds) THEN << >>
    ELSE Messages(build_financial_context(ds, incs, exps, strat), history,
                  user_message)

(***************************************************************************)
(* Bounds and the inputs the model draws                                   *)
(***************************************************************************)

\* the horizon passed as max_months (the program's default is 600)
MaxHorizon == 6

\* how many times simulate is called in one behaviour
MaxCalls == 2

Debt(name, type, dollars, cents, rate, term) ==
    [name |-> name, type |-> type, balance |-> dollars * Dollar + cents * Threshold,
     rate |-> rate, term_months |-> term]

\* The debts a session store may hold: positive balances, APR 0..35, a term
\* of at least 1 for installment debts and none (0) for revolving ones, as
\* the "Add Debt" form enters them.
DebtA == Debt("A", "Credit Card", 2500, 0, 24, 0)
DebtB == Debt("B", "Credit Card", 2000, 0, 10, 0)
DebtC == Debt("C", "Credit Card", 500, 0, 23, 0)
DebtS == Debt("S", "Medical Debt", 60, 0, 12, 0)
DebtP == Debt("P", "Personal Loan", 1000, 0, 24, 6)
DebtL == Debt("L", "Personal Loan", 1000, 0, 0, 5)
DebtT == Debt("T", "Other", 0, 3, 0, 4)
DebtM == Debt("M", "Personal Loan", 500, 0, 24, 3)
DebtX == Debt("X", "Car Loan", 30, 0, 24, 1)

\* a balance of 0.02 that one payment of 0.01 brings to the threshold exactly
DebtH == Debt("H", "Other", 0, 2, 0, 2)

\* a balance of 0.004: above 0, as the form requires, and below the threshold
DebtE == [Debt("E", "Other", 0, 0, 12, 12) EXCEPT !.balance = 40]

PairDebts == {DebtA, DebtB, DebtC, DebtP}

DebtLists ==
    {<< >>}
    \cup {<<d>> : d \in PairDebts \cup {DebtS, DebtL, DebtT, DebtH}}
    \cup {p \in PairDebts \X PairDebts : p[1] # p[2]}
    \cup {<<DebtL, DebtT>>, <<DebtS, DebtC>>, <<DebtM, DebtX>>, <<DebtP, DebtS, DebtC>>}
    \cup {<<DebtC, DebtM>>, <<DebtE, DebtC>>}

Income(dollars, freq) == [label |-> "Income", amount |-> dollars * Dollar, freq |-> freq]

IncomeLists ==
    {<<Income(80, "Monthly")>>,
     <<Income(2400, "Annual")>>,
     <<Income(4800, "Annual"), Income(25, "Weekly")>>}

FutureIncomeLists ==
    {<< >>,
     <<[label |-> "Raise", amount |-> 37 * Dollar, freq |-> "Bi-Weekly",
        start_month |-> 2]>>}

ExpenseLines == {"Housing", "Dining Out"}

ExpenseCategory(name) == IF name = "Housing" THEN "needs" ELSE "wants"

\* the amounts the budget tab may set a line to
ExpenseAmounts(name) == IF name = "Housing" THEN {0, 20 * Dollar} ELSE {0, 50 * Dollar}

Expenses(housing, dining) ==
    [n \in ExpenseLines |->
        [amount |-> IF n = "Housing" THEN housing ELSE dining,
         category |-> ExpenseCategory(n)]]

ExtraPcts == {0, 50, 90}

Strategies == {"Avalanche", "Snowball"}

(***************************************************************************)
(* State                                                                   *)
(***************************************************************************)

VARIABLES
    debts, incomes, future_income, expenses,   \* st.session_state
    extra_pct, strategy, max_months,           \* the arguments of the calls
    pc,                                        \* "idle", "loop" or "returned"
    month, balances, mins, order, total_int,   \* the locals of simulate
    payoff_ev, timeline,
    result,                                    \* what the last call returned
    last,                                      \* what the last iteration did
    paid_total,                                \* payments applied in this call
    previous,                                  \* what the call before returned
    calls,                                     \* calls made so far
    fn,                                        \* the last helper applied on its own
    groq_available,                            \* GROQ_AVAILABLE
    chat_history,                              \* st.session_state.chat_history
    asked                                      \* the last call of ask_groq

session == <<debts, incomes, future_income, expenses>>

args == <<extra_pct, strategy, max_months>>

locals == <<month, balances, mins, order, total_int, payoff_ev, timeline>>

\* what belongs to the other handlers and simulate never touches
chat == <<groq_available, chat_history, asked>>

aside == <<fn, chat>>

vars == <<session, args, pc, locals, result, last, paid_total, previous, calls, aside>>

NoResult == [timeline |-> << >>, events |-> << >>]

NoIteration == [month |-> 0]

NoCall == [op |-> "none"]

\* no chat is going on
ChatIdle == groq_available = TRUE /\ chat_history = << >> /\ asked = NoCall

\* simulate has not been called
NotSimulating ==
    /\ pc = "idle"
    /\ month = 0
    /\ balances = << >>
    /\ mins = << >>
    /\ order = << >>
    /\ total_int = 0
    /\ payoff_ev = << >>
    /\ timeline = << >>
    /\ result = NoResult
    /\ last = NoIteration
    /\ paid_total = 0
    /\ previous = NoResult
    /\ calls = 0


(***************************************************************************)
(* Init: a session store as the sidebar forms and the budget tab fill it,  *)
(* and the arguments the payoff tab passes to simulate.                    *)
(***************************************************************************)

Init ==
    /\ debts \in DebtLists
    /\ incomes \in IncomeLists
    /\ future_income \in FutureIncomeLists
    /\ expenses = Expenses(0, 0)
    /\ extra_pct \in ExtraPcts
    /\ strategy \in Strategies
    /\ max_months = MaxHorizon
    /\ pc = "idle"
    /\ month = 0
    /\ balances = << >>
    /\ mins = << >>
    /\ order = << >>
    /\ total_int = 0
    /\ payoff_ev = << >>
    /\ timeline = << >>
    /\ result = NoResult
    /\ last = NoIteration
    /\ paid_total = 0
    /\ previous = NoResult
    /\ calls = 0
    /\ fn = NoCall
    /\ ChatIdle

(***************************************************************************)
(* Actions                                                                 *)
(***************************************************************************)

\* simulate(debts, ...) with an empty debt list: "if not debts: return [], []"
SimulateEmpty ==
    /\ pc \in {"idle", "returned"}
    /\ calls < MaxCalls
    /\ debts = << >>
    /\ pc' = "returned"
    /\ previous' = IF pc = "returned" THEN result ELSE previous
    /\ result' = NoResult
    /\ calls' = calls + 1
    /\ month' = 0
    /\ balances' = << >>
    /\ mins' = << >>
    /\ order' = << >>
    /\ total_int' = 0
    /\ payoff_ev' = << >>
    /\ timeline' = << >>
    /\ last' = NoIteration
    /\ paid_total' = 0
    /\ UNCHANGED <<session, args, aside>>

\* simulate(debts, ...): the statements before the loop
SimulateEnter ==
    /\ pc \in {"idle", "returned"}
    /\ calls < MaxCalls
    /\ debts # << >>
    /\ pc' = "loop"
    /\ previous' = IF pc = "returned" THEN result ELSE previous
    /\ calls' = calls + 1
    /\ month' = 0
    /\ balances' = [i \in DOMAIN debts |-> debts[i].balance]
    /\ mins' = [i \in DOMAIN debts |-> calc_min(debts[i])]
    /\ order' = StrategyOrder(debts, strategy)
    /\ total_int' = 0
    /\ payoff_ev' = [i \in DOMAIN debts |-> 0]
    /\ timeline' = << >>
    /\ last' = NoIteration
    /\ paid_total' = 0
    /\ UNCHANGED <<session, args, result, aside>>

\* one iteration of the loop
Iterate ==
    /\ pc = "loop"
    /\ ~LoopEnds(month, max_months, balances)
    /\ \E step \in {LoopBody(debts, incomes, future_income, extra_pct, order,
                            TotalExpenses(expenses), month + 1, balances, mins,
                            total_int)} :
       LET m == month + 1 IN
           /\ month' = m
           /\ debts' = StoredAfter(debts, step.balances)
           /\ balances' = step.balances
           /\ mins' = step.mins
           /\ total_int' = step.total_int
           /\ payoff_ev' = MarkPayoffs(payoff_ev, step.balances, m)
           /\ timeline' = Append(timeline, step.snapshot)
           /\ last' = [month |-> m, start |-> balances, step |-> step]
           /\ paid_total' = paid_total + SumOver(step.min_paid, DOMAIN balances)
                                       + SumOver(step.extra_paid, DOMAIN balances)
    /\ UNCHANGED <<incomes, future_income, expenses, args, pc, order, result,
                   previous, calls, aside>>

\* the loop ends (break, or the range is exhausted) and simulate returns
Return ==
    /\ pc = "loop"
    /\ LoopEnds(month, max_months, balances)
    /\ pc' = "returned"
    /\ result' = [timeline |-> timeline,
                  events   |-> SortEvents(EventsOf(debts, payoff_ev))]
    /\ UNCHANGED <<session, args, locals, last, paid_total, previous, calls, aside>>

\* the budget tab: st.session_state.expenses[name]["amount"] = new_val
\* (between two calls of simulate; the script runs in one thread)
EditExpense ==
    /\ pc = "returned"
    /\ calls < MaxCalls
    /\ \E n \in ExpenseLines : \E v \in ExpenseAmounts(n) :
          /\ v # expenses[n].amount
          /\ expenses' = [expenses EXCEPT ![n].amount = v]
    /\ UNCHANGED <<debts, incomes, future_income, args, pc, locals, result, last,
                   paid_total, previous, calls, aside>>

Next == SimulateEmpty \/ SimulateEnter \/ Iterate \/ Return \/ EditExpense

Spec == Init /\ [][Next]_vars

(***************************************************************************)
(* The helpers applied on their own, to arguments that need not come from  *)
(* the forms: calc_min and freedom_score as functions of what they are     *)
(* given.                                                                  *)
(***************************************************************************)

\* arguments of calc_min: every type, balances and terms of either sign
FnBalances == {0 - 50 * Dollar, 0, Dollar, 1000 * Dollar}

FnTerms == {0 - 3, 0, 12}

FnRates == {0, 24}

FnDebts ==
    {[name |-> "D", type |-> t, balance |-> b, rate |-> r, term_months |-> n] :
        t \in DOMAIN DEBT_CFG, b \in FnBalances, r \in FnRates, n \in FnTerms}

\* arguments of freedom_score: non-negative amounts
DebtZ == Debt("Z", "Car Loan", 0, 0, 24, 12)

FnDebtLists ==
    {<< >>, <<DebtA>>, <<DebtL>>, <<DebtZ>>, <<DebtS, DebtC>>, <<DebtA, DebtB>>,
     <<DebtP, DebtS, DebtC>>}

FnGross == {0, 80 * Dollar, 400 * Dollar, 1000 * Dollar}

FnInit ==
    /\ debts = << >>
    /\ incomes = << >>
    /\ future_income = << >>
    /\ expenses \in {Expenses(h, d) : h \in ExpenseAmounts("Housing"),
                                       d \in ExpenseAmounts("Dining Out")}
    /\ extra_pct = 0
    /\ strategy = "Avalanche"
    /\ max_months = MaxHorizon
    /\ NotSimulating
    /\ fn = NoCall
    /\ ChatIdle

\* calc_min(debt)
ApplyCalcMin ==
    /\ \E d \in FnDebts :
          fn' = [op |-> "calc_min", debt |-> d, out |-> calc_min(d)]
    /\ UNCHANGED <<session, args, pc, locals, result, last, paid_total, previous, calls, chat>>

\* freedom_score(debts, gross_m)
ApplyFreedomScore ==
    /\ \E ds \in FnDebtLists, g \in FnGross :
          fn' = [op |-> "freedom_score", debts |-> ds, gross_m |-> g,
                 raw |-> IF ds = << >> \/ g = 0 THEN 100
                         ELSE RawScore(ds, g, TotalExpenses(expenses)),
                 out |-> freedom_score(ds, g, TotalExpenses(expenses))]
    /\ UNCHANGED <<session, args, pc, locals, result, last, paid_total, previous, calls, chat>>

FnNext == ApplyCalcMin \/ ApplyFreedomScore

FnSpec == FnInit /\ [][FnNext]_vars

(***************************************************************************)
(* The chat tab: the two handlers that call ask_groq, and "Clear Chat".    *)
(***************************************************************************)

\* how many questions are asked in one behaviour
MaxChat == 3

Suggestions == {"Which debt should I pay first and why?"}

FormInputs == {"Can I afford a car?"}

ServiceOutcomes == {"ok", "client_error", "service_error"}

\* The stored debts of the chat sessions.  The last list holds a debt of
\* balance 0, which the debt form does not add: it is the stored state on
\* which building the context fails.
ChatDebtLists == {<< >>, <<DebtA>>, <<DebtA, DebtB>>, <<DebtZ>>}

ChatInit ==
    /\ debts \in ChatDebtLists
    /\ incomes \in {<< >>, <<Income(80, "Monthly")>>}
    /\ future_income = << >>
    /\ expenses = Expenses(0, 0)
    /\ extra_pct = 0
    /\ strategy \in Strategies
    /\ max_months = MaxHorizon
    /\ NotSimulating
    /\ fn = NoCall
    /\ groq_available \in BOOLEAN
    /\ chat_history = << >>
    /\ asked = NoCall

\* append the user's message, call ask_groq, append the reply
Interact(msg) ==
    /\ Len(chat_history) < 2 * MaxChat
    /\ \E service \in ServiceOutcomes :
          LET history == Append(chat_history, [role |-> "user", content |-> msg])
              out     == ask_groq(msg, groq_available, service, debts, incomes,
                                  expenses, strategy, history)
              sent    == SentMessages(msg, groq_available, service, debts, incomes,
                                      expenses, strategy, history)
          IN  /\ asked' = [op |-> "ask_groq", message |-> msg, service |-> service,
                           out |-> out, prior |-> chat_history, sent |-> sent]
              /\ chat_history' =
                    IF out.raised THEN history
                    ELSE Append(history, [role |-> "assistant", content |-> out.text])
    /\ UNCHANGED <<session, args, pc, locals, result, last, paid_total, previous,
                   calls, fn, groq_available>>

\* a suggestion button
SuggestionClick == \E s \in Suggestions : Interact(s)

\* the chat form, "Send"
ChatFormSend == \E user_input \in FormInputs : Interact(user_input)

\* "Clear Chat"
ClearChat ==
    /\ chat_history # << >>
    /\ chat_history' = << >>
    /\ UNCHANGED <<session, args, pc, locals, result, last, paid_total, previous,
                   calls, fn, groq_available, asked>>

ChatNext == SuggestionClick \/ ChatFormSend \/ ClearChat

ChatSpec == ChatInit /\ [][ChatNext]_vars


(***************************************************************************)
(* What the last iteration did, for the properties below                   *)
(***************************************************************************)

Iterated == last.month > 0

\* the debts that were active at the start of the last iteration
LastActive == Active(last.start)

\* what debt i received in the last iteration, minimum and extra together
Received(i) == last.step.min_paid[i] + last.step.extra_paid[i]

\* position of debt i in the strategy order
Position(i) == CHOOSE k \in DOMAIN order : order[k] = i

\* the loop ended because the range was exhausted, with a debt still active
HorizonReached == pc = "returned" /\ debts # << >> /\ month = max_months
                  /\ Active(balances) # {}

(***************************************************************************)
(* C1.  When the month's available budget is smaller than the sum of the   *)
(* active minimums, payments follow the strategy order: a debt that is     *)
(* later in the order receives something only if every active debt before  *)
(* it in the order received its full minimum or its whole balance.         *)
(***************************************************************************)
Starved == Iterated /\ last.step.available < last.step.total_min

C1_MinimumsInStrategyOrder ==
    Starved =>
        \A i \in LastActive, j \in LastActive :
            (Position(i) < Position(j) /\ Received(j) > 0)
                => Received(i) >= Min(last.step.mins[i], last.step.with_int[i])

(***************************************************************************)
(* C2.  When the loop reaches max_months with a balance still above the    *)
(* threshold, what simulate returns says so: the returned value carries a  *)
(* report besides the timeline and the events.                             *)
(***************************************************************************)
C2_HorizonReported ==
    HorizonReached => \E f \in DOMAIN result : f \notin {"timeline", "events"}

(***************************************************************************)
(* C3.  When a debt active in a month receives no more than the interest   *)
(* added to it that month, simulate does not go on to iterate another      *)
(* month.                                                                  *)
(***************************************************************************)
PaymentBelowInterest ==
    Iterated /\ \E i \in LastActive : Received(i) <= last.step.interest[i]

C3_NoSilentLoop ==
    PaymentBelowInterest =>
        ~(pc = "loop" /\ ~LoopEnds(month, max_months, balances))

(***************************************************************************)
(* C4.  Two calls of simulate with the same arguments return the same      *)
(* timeline and events (the arguments and the debts, incomes and future    *)
(* incomes passed never change in a behaviour of this model).  Compared    *)
(* are the balances and total_interest of every snapshot and the payoff    *)
(* months, which the claim names; the snapshots' takehome and expenses     *)
(* figures are left out of the comparison.                                 *)
(***************************************************************************)
Figures(res) ==
    [timeline |-> [k \in DOMAIN res.timeline |->
                      <<res.timeline[k].month, res.timeline[k].balances,
                        res.timeline[k].total_interest>>],
     payoffs  |-> [k \in DOMAIN res.events |->
                      <<res.events[k].name, res.events[k].month>>]]

C4_SameInputsSameResult ==
    (pc = "returned" /\ calls >= 2) => Figures(result) = Figures(previous)


\* total_expenses_monthly() as the finished call read it
RunExpenses == IF timeline = << >> THEN TotalExpenses(expenses) ELSE timeline[1].expenses

\* the same call with another extra_pct or strategy, run to its end
Rerun(pct, strat) ==
    SimulateFinal(debts, incomes, future_income, pct, strat, max_months, RunExpenses)

(***************************************************************************)
(* C5.  Monotonicity in the extra-payment budget: with everything else     *)
(* fixed, a call with a larger extra_pct returns a timeline no longer, and *)
(* a final total_interest no greater, than this call's.                    *)
(***************************************************************************)
C5_MonotoneInExtraPct ==
    pc = "returned" =>
        \A q \in ExtraPcts :
            q >= extra_pct =>
                /\ Rerun(q, strategy).months <= Len(timeline)
                /\ Rerun(q, strategy).total_interest <= total_int

(***************************************************************************)
(* C6.  Avalanche optimality: with everything else fixed, the final        *)
(* total_interest of the Avalanche call is at most that of the Snowball    *)
(* call.                                                                   *)
(***************************************************************************)
C6_AvalancheAtMostSnowball ==
    (pc = "returned" /\ strategy = "Avalanche") =>
        total_int <= Rerun(extra_pct, "Snowball").total_interest


(***************************************************************************)
(* C7.  Conservation: at every snapshot, total_remaining is the sum of the *)
(* original balances plus the interest accrued so far minus the payments   *)
(* applied so far, and the clamp changes no balance.                       *)
(***************************************************************************)
OriginalTotal == SumOver([i \in DOMAIN debts |-> debts[i].balance], DOMAIN debts)

C7_Conservation ==
    (pc \in {"loop", "returned"} /\ Iterated) =>
        /\ timeline[Len(timeline)].total_remaining
              = OriginalTotal + total_int - paid_total
        /\ timeline[Len(timeline)].total_interest = total_int
        /\ last.step.unclamped = last.step.balances

\* a third month in which interest accrued, a minimum and an extra payment
\* were applied, and a debt was paid off
C7_Witness ==
    /\ Iterated
    /\ month >= 3
    /\ SumOver(last.step.interest, DOMAIN balances) > 0
    /\ SumOver(last.step.min_paid, DOMAIN balances) > 0
    /\ SumOver(last.step.extra_paid, DOMAIN balances) > 0
    /\ \E i \in LastActive : balances[i] = 0

(***************************************************************************)
(* C8.  Every balance of every snapshot is >= 0, and neither the minimum   *)
(* payment nor the extra payment of a debt in a month exceeds its balance  *)
(* after that month's interest was added.                                  *)
(***************************************************************************)
C8_BalancesNonNegative ==
    /\ \A k \in DOMAIN timeline : \A i \in DOMAIN debts : timeline[k].balances[i] >= 0
    /\ Iterated =>
          \A i \in DOMAIN debts :
              /\ last.step.min_paid[i] <= last.step.with_int[i]
              /\ last.step.extra_paid[i] <= last.step.with_int[i]
              /\ last.step.unclamped[i] >= 0

\* a month whose payments extinguished one debt exactly and spilled extra
\* budget over to another
C8_Witness ==
    /\ Iterated
    /\ \E i \in LastActive, j \in LastActive :
          /\ i # j
          /\ Received(i) = last.step.with_int[i]
          /\ last.step.extra_paid[i] > 0
          /\ last.step.extra_paid[j] > 0

(***************************************************************************)
(* C9.  simulate terminates with at most max_months snapshots, and on      *)
(* return either no balance is above the threshold or the timeline has     *)
(* exactly max_months snapshots.  Termination is by the loop's variant:    *)
(* every step taken inside the loop either returns or adds one snapshot,   *)
(* and there are never more than max_months snapshots.                     *)
(***************************************************************************)
C9_TerminalStates ==
    /\ Len(timeline) = month
    /\ month <= max_months
    /\ (pc = "returned" /\ debts # << >>) =>
          /\ result.timeline = timeline
          /\ Active(balances) = {} \/ Len(timeline) = max_months

C9_Terminates ==
    /\ []C9_TerminalStates
    /\ [][pc = "loop" => (pc' = "returned" \/ Len(timeline') = Len(timeline) + 1)]_vars

\* both terminal states in one: the last of max_months iterations paid
\* everything off
C9_Witness ==
    /\ pc = "returned"
    /\ Len(timeline) = max_months
    /\ Active(balances) = {}
    /\ Active(timeline[max_months - 1].balances) # {}

(***************************************************************************)
(* C10.  A single debt with APR 0 and a fixed payment p > 0, no extra      *)
(* payment, a disposable income of at least p in every month and a horizon *)
(* that is long enough.                                                    *)
(***************************************************************************)
CeilDiv(a, b) == Max(0, (a + b - 1) \div b)

ZeroAprCase ==
    /\ pc = "returned"
    /\ Len(debts) = 1
    /\ debts[1].rate = 0
    /\ MinPctOf(debts[1].type) = 0
    /\ calc_min(debts[1]) > 0
    /\ extra_pct = 0
    /\ CeilDiv(debts[1].balance, calc_min(debts[1])) <= max_months
    /\ \A k \in DOMAIN timeline :
          timeline[k].takehome - timeline[k].expenses >= calc_min(debts[1])

\* as claimed: ceil(balance / p) snapshots, no interest, payments summing to
\* the original balance
C10_ZeroAprCeil ==
    ZeroAprCase =>
        /\ Len(timeline) = CeilDiv(debts[1].balance, calc_min(debts[1]))
        /\ \A k \in DOMAIN timeline : timeline[k].total_interest = 0
        /\ paid_total = debts[1].balance

\* as amended: the number of snapshots is the least k with
\* balance - k*p <= 0.01, and the payments sum to the original balance less
\* the residue of at most 0.01 that is left
C10_ZeroAprThreshold ==
    ZeroAprCase =>
        /\ Len(timeline) = CeilDiv(debts[1].balance - Threshold, calc_min(debts[1]))
        /\ \A k \in DOMAIN timeline : timeline[k].total_interest = 0
        /\ paid_total = debts[1].balance - balances[1]
        /\ balances[1] <= Threshold
        /\ \A k \in DOMAIN timeline :
              timeline[k].balances[1] = debts[1].balance - k * calc_min(debts[1])

\* the loan of 1000 paid off by five payments of 200
C10_Witness ==
    /\ ZeroAprCase
    /\ Len(timeline) = 5
    /\ paid_total = 1000 * Dollar
    /\ balances[1] = 0

(***************************************************************************)
(* C11.  calc_min returns 0 for every debt, of whatever type, whose        *)
(* balance is <= 0 or whose term is negative.  (A term of 0 is left out    *)
(* here because the model writes a missing term as 0.)                     *)
(***************************************************************************)
InvalidDebt(d) == d.balance <= 0 \/ d.term_months < 0

C11_CalcMinZeroOnInvalid ==
    (fn.op = "calc_min" /\ InvalidDebt(fn.debt)) => fn.out = 0

(***************************************************************************)
(* C12.  freedom_score returns an integer in 0..100, and exactly 100 when  *)
(* the debt list is empty or the gross income is 0.                        *)
(***************************************************************************)
C12_ScoreInRange ==
    fn.op = "freedom_score" =>
        /\ fn.out \in 0..100
        /\ (fn.debts = << >> \/ fn.gross_m = 0) => fn.out = 100

\* a score strictly inside the range, for debts and an income that are there
C12_Witness ==
    /\ fn.op = "freedom_score"
    /\ fn.debts # << >>
    /\ fn.gross_m > 0
    /\ fn.out > 0
    /\ fn.out < 100
    /\ fn.out = fn.raw

(***************************************************************************)
(* C13.  Every call of ask_groq returns a text to display and raises       *)
(* nothing, whether the library is missing, the client or the service call *)
(* fails, or building the context fails; and no step of the chat changes   *)
(* the debts, incomes, future incomes or expenses.                         *)
(***************************************************************************)
C13_ReturnsText ==
    asked.op = "ask_groq" =>
        /\ ~asked.out.raised
        /\ asked.out.text.kind \in {"unavailable", "error", "answer"}
        /\ ~groq_available => asked.out.text.kind = "unavailable"
        /\ (groq_available /\ (asked.service # "ok" \/ ContextFails(debts)))
              => asked.out.text.kind = "error"

C13_ChatContained ==
    /\ []C13_ReturnsText
    /\ [][chat_history' # chat_history => UNCHANGED session]_vars

\* a chat in which the service answered once and then failed, the failure
\* shown as a reply
C13_Witness ==
    /\ asked.op = "ask_groq"
    /\ asked.service = "service_error"
    /\ asked.out.text.kind = "error"
    /\ \E k \in DOMAIN chat_history :
          chat_history[k].role = "assistant" /\ chat_history[k].content.kind = "answer"

(***************************************************************************)
(* C14.  No step of a simulate call (its entry, an iteration, its return)  *)
(* changes a stored debt record, income stream, future income stream or    *)
(* expense line: the loop works on its own list of balances.               *)
(***************************************************************************)
SimulateStep == calls' # calls \/ pc = "loop"

C14_PrivateCopy == [][SimulateStep => UNCHANGED session]_vars

\* a run that paid everything off while the records keep their balances
C14_Witness ==
    /\ pc = "returned"
    /\ month >= 2
    /\ debts # << >>
    /\ Active(balances) = {}
    /\ \A i \in DOMAIN debts : debts[i].balance > Threshold /\ balances[i] = 0

(***************************************************************************)
(* C15.  In every month, interest is computed from the balances at the     *)
(* start of the month (the previous snapshot's, or the initial ones) and   *)
(* added before any payment: each active debt accrues balance x rate/12,   *)
(* an inactive debt accrues nothing, total_interest grows by the sum, and  *)
(* the payments come off the balance with the interest in it.              *)
(***************************************************************************)
StartOfMonth(m) ==
    IF m = 1 THEN [i \in DOMAIN debts |-> debts[i].balance]
    ELSE timeline[m - 1].balances

InterestBefore(m) == IF m = 1 THEN 0 ELSE timeline[m - 1].total_interest

C15_InterestFirst ==
    Iterated =>
        /\ last.start = StartOfMonth(month)
        /\ \A i \in DOMAIN debts :
              /\ last.step.interest[i] =
                    IF last.start[i] > Threshold
                    THEN MulDiv(last.start[i], debts[i].rate, 1200) ELSE 0
              /\ last.step.with_int[i] = last.start[i] + last.step.interest[i]
              /\ balances[i] = last.step.with_int[i] - Received(i)
        /\ total_int = InterestBefore(month)
                         + SumOver(last.step.interest, DOMAIN debts)

\* a later month in which one debt accrued interest and was paid on, while
\* another, already paid off, accrued nothing
C15_Witness ==
    /\ Iterated
    /\ month >= 2
    /\ \E i \in DOMAIN debts, j \in DOMAIN debts :
          /\ last.step.interest[i] > 0
          /\ Received(i) > last.start[i]
          /\ debts[j].rate > 0
          /\ last.start[j] = 0
          /\ last.step.interest[j] = 0

(***************************************************************************)
(* C16.  The extra payments of a month go in strategy order: a debt gets   *)
(* an extra payment only if every debt before it in the order ends the     *)
(* month at or below the threshold, and budget is left over at the end of  *)
(* the month only if no debt is above the threshold.                       *)
(***************************************************************************)
C16_ExtraInStrategyOrder ==
    Iterated =>
        /\ \A i \in DOMAIN debts, j \in DOMAIN debts :
              (Position(i) < Position(j) /\ last.step.extra_paid[j] > 0)
                  => balances[i] <= Threshold
        /\ last.step.left_over > 0 => Active(balances) = {}

\* the extra of one month extinguished the first target and spilled over to
\* the next, in an order that is not the input order
C16_Witness ==
    /\ Iterated
    /\ order[1] # 1
    /\ \E i \in LastActive, j \in LastActive :
          /\ Position(i) < Position(j)
          /\ last.step.extra_paid[i] > 0
          /\ balances[i] = 0
          /\ last.step.extra_paid[j] > 0
          /\ balances[j] > Threshold

(***************************************************************************)
(* C17.  The strategy order is by APR descending under Avalanche and by    *)
(* initial balance ascending under Snowball, ties in input order; it is    *)
(* computed before the first month and no iteration changes it.            *)
(***************************************************************************)
OrderedBefore(i, j) ==
    IF strategy = "Avalanche"
    THEN debts[i].rate > debts[j].rate \/ (debts[i].rate = debts[j].rate /\ i < j)
    ELSE debts[i].balance < debts[j].balance
            \/ (debts[i].balance = debts[j].balance /\ i < j)

C17_OrderState ==
    (pc \in {"loop", "returned"} /\ debts # << >>) =>
        /\ Len(order) = Len(debts)
        /\ {order[k] : k \in DOMAIN order} = DOMAIN debts
        /\ \A k \in DOMAIN order, l \in DOMAIN order :
              k < l => OrderedBefore(order[k], order[l])

C17_StrategyOrderFixed ==
    /\ []C17_OrderState
    /\ [][pc = "loop" => order' = order]_vars

\* Snowball on two debts of equal initial balance: the first in the input
\* is still the target of the extra although its balance is now the larger
C17_Witness ==
    /\ Iterated
    /\ month >= 2
    /\ strategy = "Snowball"
    /\ Len(debts) = 2
    /\ debts[1].balance = debts[2].balance
    /\ order = <<1, 2>>
    /\ last.start[1] > last.start[2]
    /\ last.start[2] > Threshold
    /\ last.step.extra_paid[1] > 0
    /\ last.step.extra_paid[2] = 0

(***************************************************************************)
(* C18.  The minimum of an installment debt is, throughout the run, the    *)
(* payment amortized from its original balance, APR and term; the minimum  *)
(* of a revolving debt active in a month is max(25, 2% of its balance at   *)
(* the start of that month), so at least 25.                               *)
(***************************************************************************)
C18_Minimums ==
    (pc \in {"loop", "returned"} /\ debts # << >>) =>
        /\ \A i \in DOMAIN debts :
              MinPctOf(debts[i].type) = 0 => mins[i] = calc_min(debts[i])
        /\ Iterated =>
              \A i \in LastActive :
                  MinPctOf(debts[i].type) > 0 =>
                      /\ mins[i] = Max(25 * Dollar, MulDiv(last.start[i], 2, 100))
                      /\ mins[i] >= 25 * Dollar
                      /\ last.step.mins[i] = mins[i]

\* a later month with an installment debt and a revolving debt whose
\* minimum is no longer the one computed before the loop
C18_Witness ==
    /\ Iterated
    /\ month >= 2
    /\ \E i \in LastActive, j \in LastActive :
          /\ MinPctOf(debts[i].type) > 0
          /\ mins[i] > 25 * Dollar
          /\ mins[i] # calc_min(debts[i])
          /\ MinPctOf(debts[j].type) = 0
          /\ last.start[j] < debts[j].balance

(***************************************************************************)
(* C19.  The returned events are sorted by month, hold each debt at most   *)
(* once, and hold a debt with month m exactly when m is the first month    *)
(* that the debt started above the threshold and ended below it; a debt    *)
(* that was never above the threshold has no event.                        *)
(***************************************************************************)
EventMonths(i) ==
    {result.events[k].month :
        k \in {e \in DOMAIN result.events : result.events[e].name = debts[i].name}}

Crossed(i, m) ==
    /\ StartOfMonth(m)[i] > Threshold
    /\ timeline[m].balances[i] < Threshold

FirstCrossing(i) ==
    {m \in DOMAIN timeline : Crossed(i, m) /\ \A n \in 1..(m - 1) : ~Crossed(i, n)}

C19_PayoffEvents ==
    (pc = "returned" /\ debts # << >>) =>
        /\ Len(result.events) <= Len(debts)
        /\ \A k \in DOMAIN result.events, l \in DOMAIN result.events :
              /\ k < l => result.events[k].month <= result.events[l].month
              /\ k # l => result.events[k].name # result.events[l].name
        /\ \A i \in DOMAIN debts : EventMonths(i) = FirstCrossing(i)

(***************************************************************************)
(* C20.  The month counter starts at 0: the n-th snapshot's take-home is   *)
(* 75% of the gross income of month index n - 1, which includes a future   *)
(* stream exactly when its start_month is <= n - 1, so that a stream with  *)
(* start_month k is left out of the first k snapshots; and the take-home   *)
(* never decreases from one snapshot to the next.                          *)
(***************************************************************************)
C20_FutureIncomeFromItsMonth ==
    \A n \in DOMAIN timeline :
        /\ timeline[n].takehome
              = MulDiv(gross_monthly(incomes, n - 1, future_income), 75, 100)
        /\ n > 1 => timeline[n].takehome >= timeline[n - 1].takehome

(***************************************************************************)
(* C21.  The freed_min of every payoff event is the minimum the debt was   *)
(* required to pay in the month of the event: for a revolving debt         *)
(* max(25, 2% of its balance at the start of that month), for an           *)
(* installment debt its amortized payment.                                 *)
(***************************************************************************)
RequiredMin(i, m) ==
    IF MinPctOf(debts[i].type) > 0
    THEN RevolvingMin(StartOfMonth(m)[i], DEBT_CFG[debts[i].type].min_pct)
    ELSE calc_min(debts[i])

C21_FreedMinOfPayoffMonth ==
    (pc = "returned" /\ debts # << >>) =>
        \A k \in DOMAIN result.events : \A i \in DOMAIN debts :
            debts[i].name = result.events[k].name =>
                result.events[k].freed_min = RequiredMin(i, result.events[k].month)

(***************************************************************************)
(* C22.  The payments of a month, minimum and extra over all debts, sum to *)
(* at most the month's disposable income max(0, take-home - expenses) and  *)
(* to at most the active minimums plus extra_pct x (disposable - active    *)
(* minimums); when the expenses are at least the take-home, nothing is     *)
(* paid.                                                                   *)
(***************************************************************************)
PaidInMonth ==
    SumOver(last.step.min_paid, DOMAIN debts) + SumOver(last.step.extra_paid, DOMAIN debts)

C22_PaymentsWithinBudget ==
    Iterated =>
        LET snap       == last.step.snapshot
            disposable == Max(0, snap.takehome - snap.expenses)
            total_min  == SumOver(last.step.mins, LastActive)
        IN  /\ last.step.disposable = disposable
            /\ PaidInMonth <= disposable
            /\ PaidInMonth <= total_min + MulDiv(disposable - total_min, extra_pct, 100)
            /\ snap.expenses >= snap.takehome =>
                  /\ PaidInMonth = 0
                  /\ balances = last.step.with_int

\* a month whose expenses exceed the take-home: interest accrued, nothing
\* was paid
C22_Witness ==
    /\ Iterated
    /\ last.step.snapshot.expenses > last.step.snapshot.takehome
    /\ last.step.snapshot.takehome > 0
    /\ SumOver(last.step.interest, DOMAIN debts) > 0
    /\ PaidInMonth = 0

(***************************************************************************)
(* C23.  With extra_pct = 0, no debt receives in a month more than its     *)
(* required minimum of that month (stated with a margin of one dollar, so  *)
(* that the rounding of an amortized last payment does not count).         *)
(***************************************************************************)
C23_MinimumsOnly ==
    (Iterated /\ extra_pct = 0) =>
        \A i \in DOMAIN debts : Received(i) <= last.step.mins[i] + Dollar

(***************************************************************************)
(* C24.  When simulate returns before the horizon because no balance is    *)
(* above the threshold, every debt that started above the threshold has a  *)
(* payoff event.                                                           *)
(***************************************************************************)
C24_FinishedDebtsHaveEvents ==
    (pc = "returned" /\ debts # << >> /\ month < max_months /\ Active(balances) = {}) =>
        \A i \in DOMAIN debts :
            debts[i].balance > Threshold =>
                \E k \in DOMAIN result.events : result.events[k].name = debts[i].name

(***************************************************************************)
(* C25.  A balance that is at or below the threshold at the end of a month *)
(* is the same in every later snapshot; a debt at or below the threshold   *)
(* at the start of a month accrues no interest, receives no payment and is *)
(* not active afterwards.                                                  *)
(***************************************************************************)
C25_PaidOffStaysPaidOff ==
    /\ \A k \in DOMAIN timeline, l \in DOMAIN timeline, i \in DOMAIN debts :
          (k < l /\ timeline[k].balances[i] <= Threshold)
              => timeline[l].balances[i] = timeline[k].balances[i]
    /\ Iterated =>
          \A i \in DOMAIN debts :
              last.start[i] <= Threshold =>
                  /\ last.step.interest[i] = 0
                  /\ Received(i) = 0
                  /\ balances[i] = last.start[i]
                  /\ i \notin Active(balances)

\* a debt left with a residue under the threshold, two months later, while
\* another debt is still being paid
C25_Witness ==
    /\ Iterated
    /\ month >= 3
    /\ \E i \in DOMAIN debts, j \in DOMAIN debts :
          /\ debts[i].balance > Threshold
          /\ timeline[month - 2].balances[i] > 0
          /\ timeline[month - 2].balances[i] <= Threshold
          /\ balances[i] = timeline[month - 2].balances[i]
          /\ Received(j) > 0


(***************************************************************************)
(* C26.  In every chat interaction that reaches the service, the messages  *)
(* sent are: one system message with the context, then the last messages   *)
(* of the history as it was before this interaction (at most 10 of them),  *)
(* then the user's message of this interaction, once, as the last entry.   *)
(***************************************************************************)
SameMessage(a, b) == a.role = b.role /\ a.content = b.content

C26_MessagesSent ==
    (asked.op = "ask_groq" /\ Len(asked.sent) > 0) =>
        LET sent   == asked.sent
            n      == Len(sent)
            prior  == asked.prior
            kept   == Min(ContextTurns, Len(prior))
        IN  /\ n = kept + 2
            /\ sent[1].role = "system"
            /\ \A k \in 1..kept :
                  SameMessage(sent[k + 1], prior[Len(prior) - kept + k])
            /\ sent[n].role = "user"
            /\ sent[n].content = asked.message

====
